---- MODULE Spec2Model ----
(***************************************************************************)
(* A model of the browser-driving engine of the job application            *)
(* automation: the session controller (BrowserManager), the form           *)
(* intelligence (FormHandler) and the site automators (LinkedIn, Indeed,   *)
(* Dice) with their factory.                                               *)
(*                                                                         *)
(* Every `await` of the Python code is a suspension point: the code        *)
(* between two awaits is one atomic step of the task that runs it.  What   *)
(* the browser, the page and the network answer is chosen by \E.           *)
(***************************************************************************)
EXTENDS Naturals, Integers, Sequences, FiniteSets, TLC

(***************************************************************************)
(* Bounds of the model.                                                    *)
(***************************************************************************)
\* initialize() is called at most MaxInits times in one behaviour
MaxInits == 2
\* at most MaxCalls controller operations are started in one behaviour
MaxCalls == 3

VARIABLES
    \* BrowserManager fields (0 is None, n > 0 the object made by the n-th initialize)
    playwright, browser, context, page, _is_initialized,
    \* the environment: the driver/browser/context/page objects started and not closed
    live,
    \* number of initialize() calls made so far
    gen,
    \* per task: where its coroutine is suspended, and the frame of its call
    pc, op,
    \* the call that completed last, and the number of calls started
    last, ncalls,
    \* the automator: BaseAutomator.site_name and BaseAutomator.is_logged_in
    site_name, is_logged_in,
    \* where the automator's running method is, and the frame of its call (when
    \* idle: of the call that completed last)
    apc, acall,
    \* the form field handed to FormHandler.classify_field, and what it returned
    \* ("none" until it has returned)
    field, field_type,
    \* where the running fill_form_intelligently is, and the frame of its call
    \* (when idle: of the call that completed last)
    fpc, fcall

ctlVars == <<playwright, browser, context, page, _is_initialized, live, gen,
             pc, op, last, ncalls>>

siteVars == <<site_name, is_logged_in, apc, acall>>

formVars == <<field, field_type, fpc, fcall>>

vars == <<ctlVars, siteVars, formVars>>

\* "main" is the caller's task; "aux" is a second task that tears the controller down
Tasks == {"main", "aux"}

Other(t) == IF t = "main" THEN "aux" ELSE "main"

(***************************************************************************)
(* Text: a string is a sequence of characters                              *)
(***************************************************************************)
UpperCase ==
    <<"A", "B", "C", "D", "E", "F", "G", "H", "I", "J", "K", "L", "M",
      "N", "O", "P", "Q", "R", "S", "T", "U", "V", "W", "X", "Y", "Z">>

LowerCase ==
    <<"a", "b", "c", "d", "e", "f", "g", "h", "i", "j", "k", "l", "m",
      "n", "o", "p", "q", "r", "s", "t", "u", "v", "w", "x", "y", "z">>

LowerChar(c) ==
    IF \E i \in 1..Len(UpperCase) : UpperCase[i] = c
    THEN LowerCase[CHOOSE i \in 1..Len(UpperCase) : UpperCase[i] = c]
    ELSE c

\* str.lower()
Lower(s) == [i \in 1..Len(s) |-> LowerChar(s[i])]

\* Python's `sub in s`
Contains(s, sub) ==
    \E k \in 0..(Len(s) - Len(sub)) : \A i \in 1..Len(sub) : s[k + i] = sub[i]

(***************************************************************************)
(* BrowserManager state                                                    *)
(***************************************************************************)
\* the handles in the order cleanup releases them
Kinds == <<"page", "context", "browser", "driver">>

Handles == <<page, context, browser, playwright>>

SetHandles(h) ==
    /\ page' = h[1]
    /\ context' = h[2]
    /\ browser' = h[3]
    /\ playwright' = h[4]

\* BrowserManager.is_initialized, of a snapshot <<handles, flag>>
IsInitializedOf(s) == s[2] /\ s[1][1] # 0

\* an is_initialized that reports the flag alone
is_initialized_flag == _is_initialized

is_initialized == _is_initialized /\ page # 0

Snap == <<Handles, _is_initialized>>

NoHandles == <<0, 0, 0, 0>>

\* closing an object closes what was made from it (a browser its contexts and pages)
Descendants(i) == {Kinds[j] : j \in 1..i}

CloseObj(lv, i, id) == lv \ {<<k, id>> : k \in Descendants(i)}

\* the frame of a call: what it was given, what it found, what it did so far
NoCall == [name |-> "none", arg |-> FALSE, pre |-> <<NoHandles, FALSE>>,
           post |-> <<NoHandles, FALSE>>, ret |-> "none", raised |-> FALSE,
           shots |-> <<>>, closed |-> <<>>, failed |-> "none",
           stuck |-> "none",
           goto |-> "none", idle |-> "none", outcome |-> "none",
           g |-> 0, stage |-> 0, target |-> 0, resp |-> 0,
           after |-> "none", with |-> "none", task |-> "none"]

\* a call starts: its frame, with the controller state it found, the call that
\* completed before it and the call of the other task that is running
Frame(t, name, arg) ==
    [NoCall EXCEPT !.name = name, !.arg = arg, !.pre = Snap, !.task = t,
                   !.after = last.name, !.with = op[Other(t)].name]

\* the frames when task t starts a call named name: the other task's running
\* call, if any, now runs with it
Overlapped(t, name) ==
    [op EXCEPT ![Other(t)].with = IF pc[Other(t)] # "idle" THEN name ELSE @]


\* a call of task t starts: the other task's running call, if any, overlaps it
Start(t, frame, where) ==
    /\ pc' = [pc EXCEPT ![t] = where]
    /\ op' = [Overlapped(t, frame.name) EXCEPT ![t] = frame]
    /\ ncalls' = ncalls + 1
    /\ UNCHANGED last
    /\ UNCHANGED <<siteVars, formVars>>

\* task t goes on to its next suspension point
Suspend(t, frame, where) ==
    /\ pc' = [pc EXCEPT ![t] = where]
    /\ op' = [op EXCEPT ![t] = frame]
    /\ UNCHANGED <<last, ncalls>>
    /\ UNCHANGED <<siteVars, formVars>>

\* the call of task t returns ret, leaving the controller as <<h, flag>>
Complete(t, frame, ret, h, flag) ==
    /\ pc' = [pc EXCEPT ![t] = "idle"]
    /\ op' = [op EXCEPT ![t] = NoCall]
    /\ last' = [frame EXCEPT !.ret = ret, !.post = <<h, flag>>,
                             !.g = 0, !.stage = 0, !.target = 0]
    /\ UNCHANGED ncalls
    /\ UNCHANGED <<siteVars, formVars>>

\* a call that returns in its first step
Immediate(t, frame, ret) ==
    /\ pc' = pc
    /\ op' = Overlapped(t, frame.name)
    /\ last' = [frame EXCEPT !.ret = ret, !.post = Snap]
    /\ ncalls' = ncalls + 1
    /\ UNCHANGED <<siteVars, formVars>>

(***************************************************************************)
(* BrowserManager.cleanup                                                  *)
(***************************************************************************)
\* the first handle at or after position k that is set (5: none is)
NextClose(k, h) ==
    IF \E i \in k..4 : h[i] # 0
    THEN CHOOSE i \in k..4 : h[i] # 0 /\ \A j \in k..(i - 1) : h[j] = 0
    ELSE 5

\* what cleanup returns to: initialize's except branch returns False after it
CleanupReturn(frame) == IF frame.name = "initialize" THEN "false" ELSE "none"

\* cleanup runs from the test of handle k: it suspends in the close of the next
\* handle that is set, or clears the flag and returns
CleanupFrom(t, k, h, lv, frame) ==
    LET i == NextClose(k, h) IN
    /\ SetHandles(h)
    /\ live' = lv
    /\ UNCHANGED gen
    /\ IF i = 5
       THEN /\ _is_initialized' = FALSE
            /\ Complete(t, frame, CleanupReturn(frame), h, FALSE)
       ELSE /\ UNCHANGED _is_initialized
            /\ Suspend(t, [frame EXCEPT !.stage = i, !.target = h[i]], "cleanup_close")

\* cleanup's except branch: the error is logged and cleanup returns
CleanupFailed(t, frame) ==
    /\ UNCHANGED <<playwright, browser, context, page, _is_initialized, live, gen>>
    /\ Complete(t, frame, CleanupReturn(frame), Handles, _is_initialized)

CleanupCall(t) ==
    /\ pc[t] = "idle"
    /\ ncalls < MaxCalls
    /\ LET frame == Frame(t, "cleanup", FALSE)
           i == NextClose(1, Handles) IN
       /\ UNCHANGED <<playwright, browser, context, page, live, gen>>
       /\ IF i = 5
          THEN /\ _is_initialized' = FALSE
               /\ Immediate(t, frame, "none")
          ELSE /\ UNCHANGED _is_initialized
               /\ Start(t, [frame EXCEPT !.stage = i, !.target = Handles[i]],
                        "cleanup_close")

\* the close (or stop) that cleanup awaited has ended
CleanupClosed(t) ==
    /\ pc[t] = "cleanup_close"
    /\ \E ok \in BOOLEAN :
         LET i == op[t].stage IN
         IF ok
         THEN CleanupFrom(t, i + 1, [Handles EXCEPT ![i] = 0],
                          CloseObj(live, i, op[t].target),
                          [op[t] EXCEPT !.closed = Append(@, Kinds[i])])
         ELSE CleanupFailed(t, [op[t] EXCEPT !.stuck = Kinds[i]])

(***************************************************************************)
(* BrowserManager.initialize                                               *)
(***************************************************************************)
\* initialize's except branch: await self.cleanup(); return False
InitializeFailed(t, h, lv, step) ==
    CleanupFrom(t, 1, h, lv, [op[t] EXCEPT !.failed = step])

InitializeCall(t) ==
    /\ pc[t] = "idle"
    /\ ncalls < MaxCalls
    /\ gen < MaxInits
    /\ gen' = gen + 1
    /\ Start(t, [Frame(t, "initialize", FALSE) EXCEPT !.g = gen + 1], "init_start")
    /\ UNCHANGED <<playwright, browser, context, page, _is_initialized, live>>

\* async_playwright().start() has ended
InitStarted(t) ==
    /\ pc[t] = "init_start"
    /\ \E ok \in BOOLEAN :
         LET g == op[t].g IN
         IF ok
         THEN /\ playwright' = g
              /\ live' = live \cup {<<"driver", g>>}
              /\ Suspend(t, op[t], "init_launch")
              /\ UNCHANGED <<browser, context, page, _is_initialized, gen>>
         ELSE InitializeFailed(t, Handles, live, "start")

\* chromium.launch() has ended
InitLaunched(t) ==
    /\ pc[t] = "init_launch"
    /\ \E ok \in BOOLEAN :
         LET g == op[t].g IN
         IF ok /\ <<"driver", g>> \in live
         THEN /\ browser' = g
              /\ live' = live \cup {<<"browser", g>>}
              /\ Suspend(t, op[t], "init_context")
              /\ UNCHANGED <<playwright, context, page, _is_initialized, gen>>
         ELSE InitializeFailed(t, Handles, live, "launch")

\* browser.new_context() has ended
InitContext(t) ==
    /\ pc[t] = "init_context"
    /\ \E ok \in BOOLEAN :
         LET g == op[t].g IN
         IF ok /\ <<"browser", g>> \in live
         THEN /\ context' = g
              /\ live' = live \cup {<<"context", g>>}
              /\ Suspend(t, op[t], "init_page")
              /\ UNCHANGED <<playwright, browser, page, _is_initialized, gen>>
         ELSE InitializeFailed(t, Handles, live, "context")

\* context.new_page() has ended; set_default_timeout follows without an await
InitPage(t) ==
    /\ pc[t] = "init_page"
    /\ \E ok \in BOOLEAN, timeout_ok \in BOOLEAN :
         LET g == op[t].g IN
         IF ok /\ <<"context", g>> \in live
         THEN IF timeout_ok
              THEN /\ page' = g
                   /\ live' = live \cup {<<"page", g>>}
                   /\ Suspend(t, op[t], "init_script")
                   /\ UNCHANGED <<playwright, browser, context, _is_initialized, gen>>
              ELSE InitializeFailed(t, [Handles EXCEPT ![1] = g],
                                    live \cup {<<"page", g>>}, "timeout")
         ELSE InitializeFailed(t, Handles, live, "page")

\* page.add_init_script() has ended
InitScript(t) ==
    /\ pc[t] = "init_script"
    /\ \E ok \in BOOLEAN :
         LET g == op[t].g IN
         IF ok /\ <<"page", g>> \in live
         THEN /\ _is_initialized' = TRUE
              /\ Complete(t, op[t], "true", Handles, TRUE)
              /\ UNCHANGED <<playwright, browser, context, page, live, gen>>
         ELSE InitializeFailed(t, Handles, live, "script")

(***************************************************************************)
(* BrowserManager.take_screenshot, as the except branches use it           *)
(***************************************************************************)
\* the screenshot attempts take_screenshot(tag) can make on page pg: none reaches
\* the page when there is no page; page.screenshot() may itself fail
ScreenshotAttempts(tag, pg) ==
    IF pg = 0
    THEN {[tag |-> tag, result |-> "no_page"]}
    ELSE {[tag |-> tag, result |-> r] : r \in {"saved", "failed"}}

(***************************************************************************)
(* BrowserManager.navigate_to                                              *)
(***************************************************************************)
\* navigation succeeded only below this HTTP status
HttpErrorFloor == 400

\* what page.goto() may answer: no response (0) or a response with a status
Responses == {0, 200, 399, 400}

Outcomes == {"ok", "timeout", "error"}

\* a navigate_to that accepts the status 400 itself
NavigationOkInclusive(resp) == resp # 0 /\ resp <= HttpErrorFloor

\* the final test of navigate_to: response and response.status < 400
NavigationOk(resp) == resp # 0 /\ resp < HttpErrorFloor

\* the tag of the screenshot navigate_to's except branches take
NavigationTag(o) == IF o = "timeout" THEN "navigation_timeout" ELSE "navigation_error"

\* an except branch of navigate_to: screenshot, return False
NavigateFailed(t, frame, o) ==
    /\ \E shot \in ScreenshotAttempts(NavigationTag(o), page) :
         Complete(t, [frame EXCEPT !.shots = Append(@, shot)], "false",
                  Handles, _is_initialized)
    /\ UNCHANGED <<playwright, browser, context, page, _is_initialized, live, gen>>

NavigateCall(t) ==
    /\ pc[t] = "idle"
    /\ ncalls < MaxCalls
    /\ \E wait_for_load \in BOOLEAN :
         LET frame == Frame(t, "navigate_to", wait_for_load) IN
         IF page = 0
         THEN Immediate(t, frame, "false")
         ELSE Start(t, frame, "nav_goto")
    /\ UNCHANGED <<playwright, browser, context, page, _is_initialized, live, gen>>

\* page.goto() has ended
NavigateGoto(t) ==
    /\ pc[t] = "nav_goto"
    /\ \E o \in Outcomes, resp \in Responses :
         LET frame == [op[t] EXCEPT !.goto = o, !.resp = IF o = "ok" THEN resp ELSE 0] IN
         IF o # "ok"
         THEN NavigateFailed(t, frame, o)
         ELSE IF ~frame.arg
         THEN /\ Suspend(t, frame, "nav_delay")
              /\ UNCHANGED <<playwright, browser, context, page, _is_initialized, live, gen>>
         ELSE IF page = 0
         THEN \* self.page.wait_for_load_state on None: AttributeError
              NavigateFailed(t, [frame EXCEPT !.idle = "error"], "error")
         ELSE /\ Suspend(t, frame, "nav_idle")
              /\ UNCHANGED <<playwright, browser, context, page, _is_initialized, live, gen>>

\* page.wait_for_load_state("networkidle") has ended
NavigateIdle(t) ==
    /\ pc[t] = "nav_idle"
    /\ \E o \in Outcomes :
         LET frame == [op[t] EXCEPT !.idle = o] IN
         IF o # "ok"
         THEN NavigateFailed(t, frame, o)
         ELSE /\ Suspend(t, frame, "nav_delay")
              /\ UNCHANGED <<playwright, browser, context, page, _is_initialized, live, gen>>

\* human_delay(1, 3) has ended: the response decides
NavigateDelay(t) ==
    /\ pc[t] = "nav_delay"
    /\ IF NavigationOk(op[t].resp)
       THEN IF page = 0
            THEN \* the log line reads self.page.url on None: AttributeError
                 NavigateFailed(t, [op[t] EXCEPT !.outcome = "error"], "error")
            ELSE /\ Complete(t, op[t], "true", Handles, _is_initialized)
                 /\ UNCHANGED <<playwright, browser, context, page, _is_initialized,
                                live, gen>>
       ELSE /\ Complete(t, op[t], "false", Handles, _is_initialized)
            /\ UNCHANGED <<playwright, browser, context, page, _is_initialized,
                           live, gen>>

(***************************************************************************)
(* The other interaction primitives of BrowserManager                      *)
(***************************************************************************)
Primitives == {"wait_for_element", "is_element_present", "click_element",
               "fill_input", "select_dropdown_option", "get_element_text",
               "get_element_attribute", "execute_javascript", "take_screenshot",
               "wait_for_navigation"}

\* the primitives that return a value or None; the others return a bool
ValuePrimitives == {"get_element_text", "get_element_attribute",
                    "execute_javascript", "take_screenshot"}

\* what a primitive returns when it has no page or when it fails
FailureValue(p) == IF p \in ValuePrimitives THEN "none" ELSE "false"

SuccessValue(p) == IF p \in ValuePrimitives THEN "value" ELSE "true"

\* except branches that take no screenshot
FailureTagNone(p, o) == ""

\* the screenshot tag of a primitive's except branch ("": it takes none)
FailureTag(p, o) ==
    CASE p = "click_element" -> IF o = "timeout" THEN "click_timeout" ELSE "click_error"
      [] p = "fill_input" -> IF o = "timeout" THEN "fill_timeout" ELSE "fill_error"
      [] p = "select_dropdown_option" -> "dropdown_error"
      [] OTHER -> ""

\* what the page may answer to a primitive: an element's text, an attribute and a
\* script's result may be empty (None) without any error
PrimitiveOutcomes(p) ==
    IF p \in {"get_element_text", "get_element_attribute", "execute_javascript"}
    THEN Outcomes \cup {"empty"}
    ELSE Outcomes

\* the screenshot attempts of a primitive that ended with outcome o on page pg
PrimitiveShots(p, o, pg) ==
    IF p = "take_screenshot"
    THEN {<<[tag |-> "screenshot", result |-> IF o = "ok" THEN "saved" ELSE "failed"]>>}
    ELSE IF o \in {"ok", "empty"} \/ FailureTag(p, o) = ""
    THEN {<<>>}
    ELSE {<<shot>> : shot \in ScreenshotAttempts(FailureTag(p, o), pg)}

PrimitiveReturn(p, o) ==
    IF o = "ok" THEN SuccessValue(p) ELSE FailureValue(p)

PrimitiveCall(t) ==
    /\ pc[t] = "idle"
    /\ ncalls < MaxCalls
    /\ \E p \in Primitives :
         LET frame == Frame(t, p, FALSE) IN
         IF page = 0
         THEN Immediate(t, frame, FailureValue(p))
         ELSE Start(t, frame, "primitive")
    /\ UNCHANGED <<playwright, browser, context, page, _is_initialized, live, gen>>

\* the page operations the primitive awaited have ended
PrimitiveDone(t) ==
    /\ pc[t] = "primitive"
    /\ \E o \in PrimitiveOutcomes(op[t].name) :
       \E shots \in PrimitiveShots(op[t].name, o, page) :
         Complete(t, [op[t] EXCEPT !.outcome = o, !.shots = shots],
                  PrimitiveReturn(op[t].name, o), Handles, _is_initialized)
    /\ UNCHANGED <<playwright, browser, context, page, _is_initialized, live, gen>>

(***************************************************************************)
(* What a primitive gives to a caller that awaits it (the automators and   *)
(* the form handler run in the caller's task and await every primitive)    *)
(***************************************************************************)
\* navigate_to on page pg: its return value and the screenshots it attempted
NavigateResults(pg) ==
    IF pg = 0
    THEN {[ret |-> "false", shots |-> <<>>]}
    ELSE {[ret |-> IF NavigationOk(r) THEN "true" ELSE "false", shots |-> <<>>] :
              r \in Responses}
         \cup {[ret |-> "false", shots |-> <<shot>>] :
                  shot \in ScreenshotAttempts(NavigationTag("timeout"), pg)
                            \cup ScreenshotAttempts(NavigationTag("error"), pg)}

\* primitive p on page pg: its return value and the screenshots it attempted
PrimitiveResults(p, pg) ==
    IF pg = 0
    THEN {[ret |-> FailureValue(p), shots |-> <<>>]}
    ELSE UNION {{[ret |-> PrimitiveReturn(p, o), shots |-> shots] :
                    shots \in PrimitiveShots(p, o, pg)} : o \in PrimitiveOutcomes(p)}

(***************************************************************************)
(* The site automators: LinkedInAutomator, IndeedAutomator, DiceAutomator  *)
(***************************************************************************)
\* JobSiteFactory._automators
Sites == {"linkedin", "indeed", "dice"}

\* the pages a login can end on: the login page itself, the page shown to a
\* logged-in user, and another page of the site
LinkedInLoginUrl ==
    <<"h", "t", "t", "p", "s", ":", "/", "/", "w", "w", "w", ".", "l", "i",
      "n", "k", "e", "d", "i", "n", ".", "c", "o", "m", "/", "l", "o", "g",
      "i", "n">>

LinkedInHomeUrl ==
    <<"h", "t", "t", "p", "s", ":", "/", "/", "w", "w", "w", ".", "l", "i",
      "n", "k", "e", "d", "i", "n", ".", "c", "o", "m", "/", "f", "e", "e",
      "d", "/">>

LinkedInOtherUrl ==
    <<"h", "t", "t", "p", "s", ":", "/", "/", "w", "w", "w", ".", "l", "i",
      "n", "k", "e", "d", "i", "n", ".", "c", "o", "m", "/", "c", "h", "e",
      "c", "k", "p", "o", "i", "n", "t", "/", "c", "h", "a", "l", "l", "e",
      "n", "g", "e">>

IndeedLoginUrl ==
    <<"h", "t", "t", "p", "s", ":", "/", "/", "s", "e", "c", "u", "r", "e",
      ".", "i", "n", "d", "e", "e", "d", ".", "c", "o", "m", "/", "a", "c",
      "c", "o", "u", "n", "t", "/", "l", "o", "g", "i", "n">>

IndeedHomeUrl ==
    <<"h", "t", "t", "p", "s", ":", "/", "/", "s", "e", "c", "u", "r", "e",
      ".", "i", "n", "d", "e", "e", "d", ".", "c", "o", "m", "/", "a", "c",
      "c", "o", "u", "n", "t", "/", "v", "i", "e", "w">>

IndeedOtherUrl ==
    <<"h", "t", "t", "p", "s", ":", "/", "/", "w", "w", "w", ".", "i", "n",
      "d", "e", "e", "d", ".", "c", "o", "m", "/">>

DiceLoginUrl ==
    <<"h", "t", "t", "p", "s", ":", "/", "/", "w", "w", "w", ".", "d", "i",
      "c", "e", ".", "c", "o", "m", "/", "d", "a", "s", "h", "b", "o", "a",
      "r", "d", "/", "l", "o", "g", "i", "n">>

DiceHomeUrl ==
    <<"h", "t", "t", "p", "s", ":", "/", "/", "w", "w", "w", ".", "d", "i",
      "c", "e", ".", "c", "o", "m", "/", "d", "a", "s", "h", "b", "o", "a",
      "r", "d">>

DiceOtherUrl ==
    <<"h", "t", "t", "p", "s", ":", "/", "/", "w", "w", "w", ".", "d", "i",
      "c", "e", ".", "c", "o", "m", "/", "h", "o", "m", "e", "/", "h", "o",
      "m", "e", "-", "f", "e", "e", "d">>

UrlIds == {"login", "home", "other"}

UrlText(site, id) ==
    CASE site = "linkedin" /\ id = "login" -> LinkedInLoginUrl
      [] site = "linkedin" /\ id = "home" -> LinkedInHomeUrl
      [] site = "linkedin" /\ id = "other" -> LinkedInOtherUrl
      [] site = "indeed" /\ id = "login" -> IndeedLoginUrl
      [] site = "indeed" /\ id = "home" -> IndeedHomeUrl
      [] site = "indeed" /\ id = "other" -> IndeedOtherUrl
      [] site = "dice" /\ id = "login" -> DiceLoginUrl
      [] site = "dice" /\ id = "home" -> DiceHomeUrl
      [] site = "dice" /\ id = "other" -> DiceOtherUrl

\* a login test with the substrings of Indeed and Dice exchanged
LoginSucceededExchanged(site, url) ==
    CASE site = "linkedin" -> Contains(url, <<"f", "e", "e", "d">>) \/ Contains(url, <<"i", "n", "/">>)
      [] site = "indeed" -> Contains(url, <<"d", "a", "s", "h", "b", "o", "a", "r", "d">>)
      [] site = "dice" -> Contains(url, <<"a", "c", "c", "o", "u", "n", "t">>)

\* the test each login makes on self.browser.page.url
LoginSucceeded(site, url) ==
    CASE site = "linkedin" -> Contains(url, <<"f", "e", "e", "d">>) \/ Contains(url, <<"i", "n", "/">>)
      [] site = "indeed" -> Contains(url, <<"a", "c", "c", "o", "u", "n", "t">>)
      [] site = "dice" -> Contains(url, <<"d", "a", "s", "h", "b", "o", "a", "r", "d">>)

\* BaseAutomator.check_already_applied: indicators
Indicators ==
    {<<"a", "p", "p", "l", "i", "e", "d">>,
     <<"a", "p", "p", "l", "i", "c", "a", "t", "i", "o", "n", " ", "s", "e", "n", "t">>,
     <<"a", "l", "r", "e", "a", "d", "y", " ", "a", "p", "p", "l", "i", "e", "d">>,
     <<"v", "i", "e", "w", " ", "a", "p", "p", "l", "i", "c", "a", "t", "i", "o", "n">>,
     <<"a", "p", "p", "l", "i", "c", "a", "t", "i", "o", "n", " ", "s", "u", "b", "m", "i", "t", "t", "e", "d">>}

\* any(indicator in page_text for indicator in indicators)
AnyIndicator(page_text) == \E indicator \in Indicators : Contains(page_text, indicator)

\* what document.body.innerText may be on a job page
Text_apply ==
    <<"A", "p", "p", "l", "y", " ", "n", "o", "w">>

Text_submitted ==
    <<"A", "p", "p", "l", "i", "c", "a", "t", "i", "o", "n", " ", "S", "u",
      "b", "m", "i", "t", "t", "e", "d">>

Text_easy ==
    <<"E", "a", "s", "y", " ", "A", "p", "p", "l", "y", " ", "-", " ", "B",
      "e", " ", "a", "n", " ", "e", "a", "r", "l", "y", " ", "a", "p", "p",
      "l", "i", "c", "a", "n", "t">>

Text_viewed ==
    <<"V", "i", "e", "w", " ", "a", "p", "p", "l", "i", "c", "a", "t", "i",
      "o", "n">>

TextIds == {"apply", "submitted", "easy", "viewed"}

PageText(id) ==
    CASE id = "apply" -> Text_apply
      [] id = "submitted" -> Text_submitted
      [] id = "easy" -> Text_easy
      [] id = "viewed" -> Text_viewed

\* a script that returns document.body.innerText as it is
InnerTextAsIs(id) == PageText(id)

\* the script of check_already_applied: document.body.innerText.toLowerCase()
InnerTextLower(id) == Lower(PageText(id))

\* search_jobs returns jobs[:20]
MaxListings == 20

\* the number of result cards of the largest search page
MaxCards == 25

\* a search page: n cards in document order; of every k cards one has no link
\* element and one has a link element without href (k = 0: every card has a
\* link with an href); a card is [card, link]
SearchPage(n, k) ==
    [i \in 1..n |->
        [card |-> i,
         link |-> IF k # 0 /\ i % k = 0 THEN "none"
                  ELSE IF k # 0 /\ i % k = 1 THEN "no_href"
                  ELSE "href"]]

\* the url the extraction script of a site computes for a card: '' without a
\* link element; linkEl.href (LinkedIn, Dice: '' without href);
\* 'https://indeed.com' + linkEl.getAttribute('href') (Indeed: the attribute
\* is null without href, and the concatenation ends in "null")
ExtractedUrl(site, card) ==
    CASE card.link = "none" -> ""
      [] card.link = "no_href" -> IF site = "indeed" THEN "https://indeed.comnull" ELSE ""
      [] card.link = "href" -> "href"

SearchPages == {SearchPage(n, k) : n \in {0, 2, MaxCards}, k \in {0, 3}}

\* .map(card => {...}): the job made of each card, an object with the keys
\* title, company, location and url (card is the card it was made of)
MappedJobs(site, cards) ==
    [i \in 1..Len(cards) |->
        [card |-> cards[i].card, title |-> "text", company |-> "text",
         location |-> "text", url |-> ExtractedUrl(site, cards[i])]]

RECURSIVE SelectSeq2(_, _)
\* the first n jobs that have a url: .filter(job => job.url)
SelectSeq2(jobs, n) ==
    IF n = 0 THEN <<>>
    ELSE IF jobs[n].url # ""
    THEN Append(SelectSeq2(jobs, n - 1), jobs[n])
    ELSE SelectSeq2(jobs, n - 1)

ExtractListings(site, cards) == SelectSeq2(MappedJobs(site, cards), Len(cards))

\* jobs[:20]
FirstListings(jobs) ==
    SubSeq(jobs, 1, IF Len(jobs) < MaxListings THEN Len(jobs) ELSE MaxListings)

\* the frame of an automator call
NoSiteCall == [method |-> "none", input |-> "none", keywords |-> FALSE,
               location |-> FALSE, trace |-> <<>>, exc |-> "none",
               ret |-> "none", jobs |-> <<>>, raised |-> FALSE, cards |-> <<>>,
               details |-> [title |-> "none", company |-> "none",
                            location |-> "none", url |-> "none", site |-> "none"]]

SiteCall(method, input) == [NoSiteCall EXCEPT !.method = method, !.input = input]

Event(ev, what, ret) == [ev |-> ev, what |-> what, ret |-> ret]

\* the screenshots a primitive attempted, as events
ShotEvents(shots) ==
    [i \in 1..Len(shots) |-> Event("take_screenshot", shots[i].tag, shots[i].result)]

\* the automator awaited primitive p on `what`; r is what the primitive gave
Awaited(frame, p, what, r) ==
    [frame EXCEPT !.trace = (@ \o ShotEvents(r.shots)) \o <<Event(p, what, r.ret)>>]

\* a take_error_screenshot that leaves the site's name out of the tag
ErrorTagWithoutSite(site, ctx) == "error_" \o ctx

\* BaseAutomator.take_error_screenshot: the tag
ErrorTag(site, ctx) == (site \o "_error_") \o ctx

\* the context each method gives to take_error_screenshot
ErrorContext(method) ==
    CASE method = "login" -> "login"
      [] method = "search_jobs" -> "search"
      [] method = "apply_to_job" -> "apply"

\* what the except branch of a method returns
SiteFailureValue(method) == IF method = "search_jobs" THEN "empty_list" ELSE "false"

SiteUnchanged ==
    UNCHANGED <<site_name, is_logged_in>> /\ UNCHANGED <<ctlVars, formVars>>

\* the method goes on to its next step
SiteStep(frame, where) ==
    /\ apc' = where
    /\ acall' = frame
    /\ SiteUnchanged

\* the method returns
SiteReturn(frame, ret) ==
    /\ apc' = "idle"
    /\ acall' = [frame EXCEPT !.ret = ret]
    /\ SiteUnchanged

\* a step of the method raised exc inside its try: the except branch logs, takes
\* the error screenshot and returns the failure value
SiteExcept(frame, exc) ==
    \E shot \in ScreenshotAttempts(ErrorTag(site_name, ErrorContext(frame.method)), page) :
        SiteReturn([frame EXCEPT !.exc = exc,
                                 !.trace = @ \o ShotEvents(<<shot>>)],
                   SiteFailureValue(frame.method))

(***************************************************************************)
(* login                                                                   *)
(***************************************************************************)
\* the credentials dict: complete, or without one of its keys
CredentialInputs == {"full", "no_email", "no_password"}

LoginCall ==
    /\ apc = "idle"
    /\ \E credentials \in CredentialInputs :
         SiteStep(SiteCall("login", credentials), "login_navigate")

LoginNavigate ==
    /\ apc = "login_navigate"
    /\ \E r \in NavigateResults(page) :
         SiteStep(Awaited(acall, "navigate_to", "login", r), "login_email")

LoginEmail ==
    /\ apc = "login_email"
    /\ IF acall.input = "no_email"
       THEN SiteExcept(acall, "KeyError")
       ELSE \E r \in PrimitiveResults("fill_input", page) :
               SiteStep(Awaited(acall, "fill_input", "login_email", r), "login_password")

LoginPassword ==
    /\ apc = "login_password"
    /\ IF acall.input = "no_password"
       THEN SiteExcept(acall, "KeyError")
       ELSE \E r \in PrimitiveResults("fill_input", page) :
               SiteStep(Awaited(acall, "fill_input", "login_password", r), "login_click")

LoginClick ==
    /\ apc = "login_click"
    /\ \E r \in PrimitiveResults("click_element", page) :
         SiteStep(Awaited(acall, "click_element", "login_button", r), "login_wait")

LoginWait ==
    /\ apc = "login_wait"
    /\ \E r \in PrimitiveResults("wait_for_navigation", page) :
         SiteStep(Awaited(acall, "wait_for_navigation", "login", r), "login_check")

\* the test of self.browser.page.url
LoginCheck ==
    /\ apc = "login_check"
    /\ IF page = 0
       THEN SiteExcept(acall, "AttributeError")
       ELSE \E id \in UrlIds :
               LET frame == [acall EXCEPT !.trace = Append(@, Event("page.url", id, "value"))] IN
               IF LoginSucceeded(site_name, UrlText(site_name, id))
               THEN /\ is_logged_in' = TRUE
                    /\ apc' = "idle"
                    /\ acall' = [frame EXCEPT !.ret = "true"]
                    /\ UNCHANGED site_name
                    /\ UNCHANGED <<ctlVars, formVars>>
               ELSE SiteReturn(frame, "false")

(***************************************************************************)
(* search_jobs                                                             *)
(***************************************************************************)
SearchCall ==
    /\ apc = "idle"
    /\ \E keywords \in BOOLEAN, location \in BOOLEAN :
         SiteStep([SiteCall("search_jobs", "params") EXCEPT !.keywords = keywords,
                                                           !.location = location],
                  "search_navigate")

SearchNavigate ==
    /\ apc = "search_navigate"
    /\ \E r \in NavigateResults(page) :
         SiteStep(Awaited(acall, "navigate_to", "search", r), "search_keywords")

\* if keywords: fill the keywords control
SearchKeywords ==
    /\ apc = "search_keywords"
    /\ IF acall.keywords
       THEN \E r \in PrimitiveResults("fill_input", page) :
               SiteStep(Awaited(acall, "fill_input", "keywords", r), "search_location")
       ELSE SiteStep(acall, "search_location")

\* if location: fill the location control
SearchLocation ==
    /\ apc = "search_location"
    /\ IF acall.location
       THEN \E r \in PrimitiveResults("fill_input", page) :
               SiteStep(Awaited(acall, "fill_input", "location", r), "search_click")
       ELSE SiteStep(acall, "search_click")

SearchClick ==
    /\ apc = "search_click"
    /\ \E r \in PrimitiveResults("click_element", page) :
         SiteStep(Awaited(acall, "click_element", "search_button", r), "search_wait")

SearchWait ==
    /\ apc = "search_wait"
    /\ \E r \in PrimitiveResults("wait_for_navigation", page) :
         SiteStep(Awaited(acall, "wait_for_navigation", "search", r), "search_extract")

\* the extraction script, len(jobs) and jobs[:20]
SearchExtract ==
    /\ apc = "search_extract"
    /\ \E r \in PrimitiveResults("execute_javascript", page) :
         LET frame == Awaited(acall, "execute_javascript", "extract", r) IN
         IF r.ret = "none"
         THEN SiteExcept(frame, "TypeError")
         ELSE \E cards \in SearchPages :
                 SiteReturn([frame EXCEPT
                                !.cards = cards,
                                !.jobs = FirstListings(ExtractListings(site_name, cards))],
                            "list")

(***************************************************************************)
(* apply_to_job                                                            *)
(***************************************************************************)
\* the job_data dict: complete, or without its url, or without its title
JobInputs == {"full", "no_url", "no_title"}

\* what fill_form_intelligently returns to the automator: False without a page
\* (no fields are found), else whether a field was filled
FormFillResults(pg) == IF pg = 0 THEN {"false"} ELSE {"true", "false"}

\* an apply_to_job that goes on to the apply control whatever the check says
AfterAppliedCheckContinue(applied) == "apply_present"

\* after check_already_applied: return False, or go on to the apply control
AfterAppliedCheck(applied) == IF applied THEN "return_false" ELSE "apply_present"

\* an apply_to_job that reports an application when no submission control is
\* present
NoSubmitReturnTrue(site) == "true"

\* what apply_to_job returns when the apply control was clicked and no submission
\* control is present: LinkedIn's method ends without a return statement
NoSubmitReturn(site) == IF site = "linkedin" THEN "none" ELSE "false"

ApplyCall ==
    /\ apc = "idle"
    /\ \E job_data \in JobInputs :
         SiteStep(SiteCall("apply_to_job", job_data), "apply_navigate")

ApplyNavigate ==
    /\ apc = "apply_navigate"
    /\ IF acall.input = "no_url"
       THEN SiteExcept(acall, "KeyError")
       ELSE \E r \in NavigateResults(page) :
               SiteStep(Awaited(acall, "navigate_to", "job", r), "apply_check")

\* check_already_applied: the page text, then the test of the indicators
ApplyCheck ==
    /\ apc = "apply_check"
    /\ \E r \in PrimitiveResults("execute_javascript", page) :
         LET frame == Awaited(acall, "execute_javascript", "innerText", r) IN
         IF r.ret = "none"
         THEN SiteExcept(frame, "TypeError")
         ELSE \E id \in TextIds :
                 LET applied == AnyIndicator(InnerTextLower(id))
                     checked == [frame EXCEPT !.trace = Append(@,
                                     Event("check_already_applied", id,
                                           IF applied THEN "true" ELSE "false"))] IN
                 IF AfterAppliedCheck(applied) = "return_false"
                 THEN SiteReturn(checked, "false")
                 ELSE SiteStep(checked, AfterAppliedCheck(applied))

ApplyPresent ==
    /\ apc = "apply_present"
    /\ \E r \in PrimitiveResults("is_element_present", page) :
         LET frame == Awaited(acall, "is_element_present", "apply", r) IN
         IF r.ret = "true"
         THEN SiteStep(frame, "apply_click")
         ELSE SiteReturn(frame, "false")

ApplyClick ==
    /\ apc = "apply_click"
    /\ \E r \in PrimitiveResults("click_element", page) :
         SiteStep(Awaited(acall, "click_element", "apply", r), "apply_delay")

\* human_delay(2, 4)
ApplyDelay ==
    /\ apc = "apply_delay"
    /\ SiteStep([acall EXCEPT !.trace = Append(@, Event("human_delay", "apply", "none"))],
                "apply_fill")

ApplyFill ==
    /\ apc = "apply_fill"
    /\ \E filled \in FormFillResults(page) :
         SiteStep([acall EXCEPT !.trace = Append(@,
                       Event("fill_form_intelligently", "form", filled))],
                  "apply_submit_present")

ApplySubmitPresent ==
    /\ apc = "apply_submit_present"
    /\ \E r \in PrimitiveResults("is_element_present", page) :
         LET frame == Awaited(acall, "is_element_present", "submit", r) IN
         IF r.ret = "true"
         THEN SiteStep(frame, "apply_submit_click")
         ELSE SiteReturn(frame, NoSubmitReturn(site_name))

\* the click on the submission control, the log line, return True
ApplySubmitClick ==
    /\ apc = "apply_submit_click"
    /\ \E r \in PrimitiveResults("click_element", page) :
         LET frame == Awaited(acall, "click_element", "submit", r) IN
         IF acall.input = "no_title"
         THEN SiteExcept(frame, "KeyError")
         ELSE SiteReturn(frame, "true")

(***************************************************************************)
(* JobSiteFactory                                                          *)
(***************************************************************************)
\* get_supported_sites: list(cls._automators.keys())
get_supported_sites == <<"linkedin", "indeed", "dice">>

\* the site identifiers a caller may pass to create_automator
SiteIdentifiers ==
    {"linkedin", "LinkedIn", "INDEED", "indeed", "dice", "Dice", "DICE", "monster",
     "linked-in", ""}

IdentifierText(id) ==
    CASE id = "linkedin" -> <<"l", "i", "n", "k", "e", "d", "i", "n">>
      [] id = "LinkedIn" -> <<"L", "i", "n", "k", "e", "d", "I", "n">>
      [] id = "INDEED" -> <<"I", "N", "D", "E", "E", "D">>
      [] id = "indeed" -> <<"i", "n", "d", "e", "e", "d">>
      [] id = "dice" -> <<"d", "i", "c", "e">>
      [] id = "Dice" -> <<"D", "i", "c", "e">>
      [] id = "DICE" -> <<"D", "I", "C", "E">>
      [] id = "monster" -> <<"m", "o", "n", "s", "t", "e", "r">>
      [] id = "linked-in" -> <<"l", "i", "n", "k", "e", "d", "-", "i", "n">>
      [] id = "" -> <<>>

\* a lookup that takes the identifier as it is written
AutomatorKeysExact(id) ==
    {i \in 1..Len(get_supported_sites) :
        IdentifierText(get_supported_sites[i]) = IdentifierText(id)}

\* cls._automators.get(site_name.lower()): the keys equal to the lower-cased
\* identifier
AutomatorKeys(id) ==
    {i \in 1..Len(get_supported_sites) :
        IdentifierText(get_supported_sites[i]) = Lower(IdentifierText(id))}

\* the lookup, for each identifier a caller may pass
AutomatorLookup == [id \in SiteIdentifiers |-> AutomatorKeys(id)]

\* create_automator: the class found makes an automator (BaseAutomator.__init__:
\* site name, not logged in); no class found raises ValueError
CreateAutomator ==
    /\ apc = "idle"
    /\ \E id \in SiteIdentifiers :
         LET frame == SiteCall("create_automator", id) IN
         IF AutomatorLookup[id] # {}
         THEN /\ site_name' = get_supported_sites[CHOOSE i \in AutomatorLookup[id] : TRUE]
              /\ is_logged_in' = FALSE
              /\ acall' = [frame EXCEPT !.ret = "automator"]
         ELSE /\ acall' = [frame EXCEPT !.exc = "ValueError", !.raised = TRUE]
              /\ UNCHANGED <<site_name, is_logged_in>>
    /\ apc' = "idle"
    /\ UNCHANGED <<ctlVars, formVars>>

(***************************************************************************)
(* BaseAutomator.get_job_details                                           *)
(***************************************************************************)
\* navigate_to and get_element_text catch what the page raises and return
\* False / None, so no step of the try block raises
DetailsCall ==
    /\ apc = "idle"
    /\ SiteStep(SiteCall("get_job_details", "job_url"), "details_navigate")

DetailsNavigate ==
    /\ apc = "details_navigate"
    /\ \E r \in NavigateResults(page) :
         SiteStep(Awaited(acall, "navigate_to", "details", r), "details_title")

\* title = await self.browser.get_element_text("h1")
DetailsTitle ==
    /\ apc = "details_title"
    /\ \E r \in PrimitiveResults("get_element_text", page) :
         SiteStep([Awaited(acall, "get_element_text", "title", r)
                      EXCEPT !.details.title = r.ret],
                  "details_company")

DetailsCompany ==
    /\ apc = "details_company"
    /\ \E r \in PrimitiveResults("get_element_text", page) :
         SiteStep([Awaited(acall, "get_element_text", "company", r)
                      EXCEPT !.details.company = r.ret],
                  "details_location")

\* the location, then the dict with url and site is returned
DetailsLocation ==
    /\ apc = "details_location"
    /\ \E r \in PrimitiveResults("get_element_text", page) :
         SiteReturn([Awaited(acall, "get_element_text", "location", r)
                        EXCEPT !.details.location = r.ret,
                               !.details.url = "job_url",
                               !.details.site = site_name],
                    "record")

(***************************************************************************)
(* FormHandler: the classification of a form field                         *)
(***************************************************************************)
\* FormHandler.field_mappings, in the order of the dict
field_mappings == <<
    [category |-> "first_name",
     keywords |-> <<
            <<"f", "i", "r", "s", "t", "n", "a", "m", "e">>,
            <<"f", "n", "a", "m", "e">>,
            <<"f", "i", "r", "s", "t", "-", "n", "a", "m", "e">>,
            <<"g", "i", "v", "e", "n", "-", "n", "a", "m", "e">>>>],
    [category |-> "last_name",
     keywords |-> <<
            <<"l", "a", "s", "t", "n", "a", "m", "e">>,
            <<"l", "n", "a", "m", "e">>,
            <<"l", "a", "s", "t", "-", "n", "a", "m", "e">>,
            <<"f", "a", "m", "i", "l", "y", "-", "n", "a", "m", "e">>>>],
    [category |-> "full_name",
     keywords |-> <<
            <<"f", "u", "l", "l", "n", "a", "m", "e">>,
            <<"n", "a", "m", "e">>,
            <<"f", "u", "l", "l", "-", "n", "a", "m", "e">>>>],
    [category |-> "email",
     keywords |-> <<
            <<"e", "m", "a", "i", "l">>,
            <<"e", "m", "a", "i", "l", "-", "a", "d", "d", "r", "e", "s", "s">>,
            <<"e", "-", "m", "a", "i", "l">>>>],
    [category |-> "phone",
     keywords |-> <<
            <<"p", "h", "o", "n", "e">>,
            <<"t", "e", "l", "e", "p", "h", "o", "n", "e">>,
            <<"m", "o", "b", "i", "l", "e">>,
            <<"t", "e", "l">>>>],
    [category |-> "location",
     keywords |-> <<
            <<"l", "o", "c", "a", "t", "i", "o", "n">>,
            <<"a", "d", "d", "r", "e", "s", "s">>,
            <<"c", "i", "t", "y">>,
            <<"w", "h", "e", "r", "e">>>>],
    [category |-> "resume",
     keywords |-> <<
            <<"r", "e", "s", "u", "m", "e">>,
            <<"c", "v">>,
            <<"u", "p", "l", "o", "a", "d">>,
            <<"f", "i", "l", "e">>>>],
    [category |-> "cover_letter",
     keywords |-> <<
            <<"c", "o", "v", "e", "r">>,
            <<"l", "e", "t", "t", "e", "r">>,
            <<"m", "e", "s", "s", "a", "g", "e">>,
            <<"w", "h", "y">>>>],
    [category |-> "experience",
     keywords |-> <<
            <<"e", "x", "p", "e", "r", "i", "e", "n", "c", "e">>,
            <<"y", "e", "a", "r", "s">>,
            <<"y", "o", "e">>>>],
    [category |-> "salary",
     keywords |-> <<
            <<"s", "a", "l", "a", "r", "y">>,
            <<"c", "o", "m", "p", "e", "n", "s", "a", "t", "i", "o", "n">>,
            <<"e", "x", "p", "e", "c", "t", "e", "d">>,
            <<"r", "a", "t", "e">>>>],
    [category |-> "availability",
     keywords |-> <<
            <<"a", "v", "a", "i", "l", "a", "b", "i", "l", "i", "t", "y">>,
            <<"s", "t", "a", "r", "t">>,
            <<"w", "h", "e", "n">>,
            <<"n", "o", "t", "i", "c", "e">>>>],
    [category |-> "linkedin",
     keywords |-> <<
            <<"l", "i", "n", "k", "e", "d", "i", "n">>,
            <<"p", "r", "o", "f", "i", "l", "e">>,
            <<"u", "r", "l">>>>],
    [category |-> "website",
     keywords |-> <<
            <<"w", "e", "b", "s", "i", "t", "e">>,
            <<"p", "o", "r", "t", "f", "o", "l", "i", "o">>,
            <<"u", "r", "l">>,
            <<"s", "i", "t", "e">>>>],
    [category |-> "message",
     keywords |-> <<
            <<"m", "e", "s", "s", "a", "g", "e">>,
            <<"a", "d", "d", "i", "t", "i", "o", "n", "a", "l">>,
            <<"o", "t", "h", "e", "r">>,
            <<"c", "o", "m", "m", "e", "n", "t", "s">>>>]>>

\* the name, id and placeholder attributes a discovered field may carry
Attr_empty == <<>>
Attr_resume_upload == <<"r", "e", "s", "u", "m", "e", "-", "u", "p", "l", "o", "a", "d">>
Attr_first == <<"f", "i", "r", "s", "t">>
Attr_name == <<"n", "a", "m", "e">>
Attr_EMail == <<"E", "-", "M", "a", "i", "l">>
Attr_q == <<"q">>
Attr_message == <<"M", "e", "s", "s", "a", "g", "e">>
Attr_url == <<"u", "r", "l">>
Attr_tel == <<"t", "e", "l">>

NameAttrs ==
    {Attr_empty, Attr_resume_upload, Attr_first, Attr_name, Attr_EMail, Attr_q,
     Attr_message, Attr_url}
IdAttrs == {Attr_empty, Attr_name, Attr_q, Attr_tel, Attr_url}
PlaceholderAttrs == {Attr_empty, Attr_EMail, Attr_message, Attr_q}
\* field.type and field.tagName as get_form_fields reports them
FieldTypes == {"", "text", "email", "tel", "file"}
TagNames == {"input", "select", "textarea"}

Fields ==
    [name : NameAttrs, id : IdAttrs, placeholder : PlaceholderAttrs,
     type : FieldTypes, tagName : TagNames]

Space == <<" ">>

\* a field text that puts nothing between the three attributes
FieldTextUnspaced(f) == Lower((f.name \o f.id) \o f.placeholder)

\* classify_field: f"{name} {id} {placeholder}".lower()
FieldText(f) == Lower((((f.name \o Space) \o f.id) \o Space) \o f.placeholder)

\* any(keyword in field_text for keyword in keywords)
AnyKeyword(keywords, field_text) ==
    \E k \in 1..Len(keywords) : Contains(field_text, keywords[k])

\* classify_field: the special cases based on the input type
TypeRule(f) ==
    IF f.type = "email" THEN "email"
    ELSE IF f.type = "tel" THEN "phone"
    ELSE IF f.type = "file" THEN "resume"
    ELSE IF f.tagName = "textarea" THEN "message"
    ELSE "unknown"

\* classify_field: the loop over field_mappings from entry i on, then the
\* special cases
RECURSIVE ClassifyFrom(_, _, _)
ClassifyFrom(i, field_text, f) ==
    IF i > Len(field_mappings) THEN TypeRule(f)
    ELSE IF AnyKeyword(field_mappings[i].keywords, field_text)
         THEN field_mappings[i].category
         ELSE ClassifyFrom(i + 1, field_text, f)

classify_field(f) == ClassifyFrom(1, FieldText(f), f)

NoField ==
    [name |-> <<>>, id |-> <<>>, placeholder |-> <<>>, type |-> "", tagName |-> "none"]

NoForm == field = NoField /\ field_type = "none"

\* the caller hands a discovered field to classify_field, which returns
ClassifyField ==
    /\ field_type = "none"
    /\ field \in Fields
    /\ field_type' = classify_field(field)
    /\ UNCHANGED <<field, fpc, fcall, ctlVars, siteVars>>

(***************************************************************************)
(* FormHandler.fill_form_intelligently                                     *)
(***************************************************************************)
\* the fields a form may be made of, as get_form_fields reports them
FormFieldKinds ==
    {"email", "first", "resume", "search", "hidden", "city", "years", "message"}

FormField(kind) ==
    LET input == [name |-> <<>>, id |-> <<>>, placeholder |-> <<>>, type |-> "text",
                  tagName |-> "input", visible |-> TRUE] IN
    CASE kind = "email" -> [input EXCEPT !.name = Attr_EMail, !.type = "email"]
      [] kind = "first" -> [input EXCEPT !.id = <<"f", "n", "a", "m", "e">>]
      [] kind = "resume" -> [input EXCEPT !.name = Attr_resume_upload, !.type = "file"]
      [] kind = "search" -> [input EXCEPT !.name = Attr_q]
      [] kind = "hidden" -> [input EXCEPT !.name = Attr_EMail, !.type = "email",
                                          !.visible = FALSE]
      [] kind = "city" -> [input EXCEPT !.name = <<"c", "i", "t", "y">>,
                                        !.type = "select-one", !.tagName = "select"]
      [] kind = "years" -> [input EXCEPT !.placeholder = <<"Y", "e", "a", "r", "s">>]
      [] kind = "message" -> [input EXCEPT !.type = "textarea", !.tagName = "textarea"]

\* the longest form made of arbitrary fields
MaxFields == 2

\* five visible fields of which three resolve to a value of a complete profile
ScenarioForm == <<"email", "resume", "first", "search", "message">>

Forms ==
    UNION {[1..n -> FormFieldKinds] : n \in 0..MaxFields} \cup {ScenarioForm}

\* the profile_data dict: complete; empty; with first_name present and None
Profiles == {"full", "empty", "null_name"}

\* _get_field_selector: '#id', "[name='...']" or the tag with a placeholder
\* prefix; never empty
_get_field_selector(f) ==
    IF f.id # <<>> THEN "#id"
    ELSE IF f.name # <<>> THEN "[name]"
    ELSE "tag[placeholder*]"

\* building field_map raises when first_name is None: None has no lower()
FieldValueRaises(profile) == profile = "null_name"

\* _get_field_value: "none" is None, "" the empty string
_get_field_value(ft, profile) ==
    CASE ft \in {"first_name", "last_name", "full_name", "email", "phone", "location"} ->
             IF profile = "full" THEN "value" ELSE "none"
      [] ft = "experience" -> IF profile = "full" THEN "value" ELSE ""
      [] ft \in {"linkedin", "message"} -> "value"
      [] OTHER -> "none"

\* `if value and selector`
ValueAndSelector(value, selector) == value \notin {"none", ""} /\ selector # ""

\* the location of the complete profile, the value given to a select field
ProfileLocation == <<"R", "e", "m", "o", "t", "e">>

\* the option lists a select element may have: [value, text] in document order
Opt(value, text) == [value |-> value, text |-> text]

OptionLists == {"countries", "text_second", "value_first", "value_last", "empty"}

Options(list) ==
    CASE list = "countries" ->
             <<Opt(<<"u", "s">>, <<"U", "n", "i", "t", "e", "d", " ", "S", "t", "a", "t", "e", "s">>), Opt(<<"u", "k">>, <<"U", "n", "i", "t", "e", "d", " ", "K", "i", "n", "g", "d", "o", "m">>)>>
      [] list = "text_second" ->
             <<Opt(<<"a">>, <<"O", "n", "s", "i", "t", "e">>), Opt(<<"b">>, <<"F", "u", "l", "l", "y", " ", "R", "E", "M", "O", "T", "E", " ", "w", "o", "r", "k">>), Opt(<<"R", "E", "M", "O", "T", "E">>, <<"A", "n", "y", "w", "h", "e", "r", "e">>)>>
      [] list = "value_first" ->
             <<Opt(<<"R", "E", "M", "O", "T", "E">>, <<"A", "n", "y", "w", "h", "e", "r", "e">>), Opt(<<"b">>, <<"R", "e", "m", "o", "t", "e">>)>>
      [] list = "value_last" ->
             <<Opt(<<"a">>, <<"O", "n", "s", "i", "t", "e">>), Opt(<<"b">>, <<"H", "y", "b", "r", "i", "d">>), Opt(<<"r", "e", "m", "o", "t", "e">>, <<"A", "n", "y", "w", "h", "e", "r", "e">>)>>
      [] list = "empty" -> <<>>

\* the script of _fill_select_field: text: opt.text.toLowerCase()
ScriptOptions(list) ==
    [i \in 1..Len(Options(list)) |->
        [value |-> Options(list)[i].value, text |-> Lower(Options(list)[i].text)]]

\* an option test that looks at the text only
OptionMatchesByText(option, value) == Contains(option.text, Lower(value))

\* value.lower() in option['text'] or option['value'].lower() == value.lower()
OptionMatches(option, value) ==
    \/ Contains(option.text, Lower(value))
    \/ Lower(option.value) = Lower(value)

\* a selection that prefers the first option matching by text, and takes the
\* first option matching by value only when no text matches
FirstMatchTextFirst(i, options, value) ==
    LET T == {j \in i..Len(options) : Contains(options[j].text, Lower(value))}
        V == {j \in i..Len(options) : Lower(options[j].value) = Lower(value)} IN
    IF T # {} THEN CHOOSE j \in T : \A k \in T : j <= k
    ELSE IF V # {} THEN CHOOSE j \in V : \A k \in V : j <= k
    ELSE 0

RECURSIVE FirstMatchFrom(_, _, _)
\* the for loop over options from position i on: the option it returns with
\* (0: it runs to the end and returns False)
FirstMatchFrom(i, options, value) ==
    IF i > Len(options) THEN 0
    ELSE IF OptionMatches(options[i], value) THEN i
    ELSE FirstMatchFrom(i + 1, options, value)

\* the frame of a fill_form_intelligently call
NoFillCall ==
    [method |-> "none", form |-> <<>>, profile |-> "none", fields |-> <<>>, i |-> 0,
     filled_count |-> 0, list |-> "none", option |-> 0, trace |-> <<>>,
     exc |-> "none", ret |-> "none", at |-> "idle"]

NoFill == fpc = "idle" /\ fcall = NoFillCall

FillEvent(ev, i, list, option, ret) ==
    [ev |-> ev, field |-> i, list |-> list, option |-> option, ret |-> ret]

\* what a primitive may return on page pg
PrimitiveReturns(p, pg) == {r.ret : r \in PrimitiveResults(p, pg)}

\* a return that counts no field as filled
FillResultFalse(filled_count) == "false"

\* return filled_count > 0
FillResult(filled_count) == IF filled_count > 0 THEN "true" ELSE "false"

\* a loop that does not skip invisible fields
SkippedNever(f) == FALSE

\* if not field.get('visible', True): continue
Skipped(f) == ~f.visible

RECURSIVE FillLoop(_, _)
\* the for loop from field i on, up to its next await or to the return: fields
\* that are skipped or get no value take no await
FillLoop(frame, i) ==
    IF i > Len(frame.fields)
    THEN [frame EXCEPT !.i = i, !.ret = FillResult(frame.filled_count), !.at = "idle"]
    ELSE LET f == FormField(frame.fields[i]) IN
         IF Skipped(f) THEN FillLoop(frame, i + 1)
         ELSE IF FieldValueRaises(frame.profile)
         THEN [frame EXCEPT !.i = i, !.exc = "AttributeError", !.ret = "false",
                            !.at = "idle"]
         ELSE IF ~ValueAndSelector(_get_field_value(classify_field(f), frame.profile),
                                   _get_field_selector(f))
         THEN FillLoop(frame, i + 1)
         ELSE [frame EXCEPT !.i = i,
                            !.at = IF f.tagName = "select" THEN "select_options"
                                   ELSE "fill_input"]

\* the call goes on to where the frame says
FillStep(frame) ==
    /\ fpc' = frame.at
    /\ fcall' = frame
    /\ UNCHANGED <<field, field_type, ctlVars, siteVars>>

\* the field at hand was filled or not: count it and go on with the next one
Filled(frame, success) ==
    FillLoop([frame EXCEPT !.filled_count = IF success THEN @ + 1 ELSE @],
             frame.i + 1)

FillCall ==
    /\ fpc = "idle"
    /\ \E form \in Forms, profile \in Profiles :
         FillStep([NoFillCall EXCEPT !.method = "fill_form_intelligently",
                                     !.form = form, !.profile = profile,
                                     !.at = "get_form_fields"])

\* get_form_fields: the script's result or []; no fields: return False
FillGetFields ==
    /\ fpc = "get_form_fields"
    /\ \E ret \in PrimitiveReturns("execute_javascript", page) :
         LET fields == IF ret = "none" THEN <<>> ELSE fcall.form
             frame == [fcall EXCEPT !.fields = fields,
                           !.trace = Append(@, FillEvent("execute_javascript", 0,
                                                         "none", 0, ret))] IN
         IF fields = <<>>
         THEN FillStep([frame EXCEPT !.ret = "false", !.at = "idle"])
         ELSE FillStep(FillLoop(frame, 1))

\* success = await self.browser.fill_input(selector, str(value))
FillInput ==
    /\ fpc = "fill_input"
    /\ \E ret \in PrimitiveReturns("fill_input", page) :
         FillStep(Filled([fcall EXCEPT !.trace = Append(@,
                              FillEvent("fill_input", fcall.i, "none", 0, ret))],
                         ret = "true"))

\* _fill_select_field: the options script, then the for loop over the options;
\* a script without result makes the loop raise, which the method turns into
\* False
FillSelectOptions ==
    /\ fpc = "select_options"
    /\ \E ret \in PrimitiveReturns("execute_javascript", page) :
         IF ret = "none"
         THEN FillStep(Filled([fcall EXCEPT !.trace = (@ \o
                  <<FillEvent("execute_javascript", fcall.i, "none", 0, "none"),
                    FillEvent("_fill_select_field", fcall.i, "none", 0, "false")>>)],
                  FALSE))
         ELSE \E list \in OptionLists :
                LET m == FirstMatchFrom(1, ScriptOptions(list), ProfileLocation)
                    frame == [fcall EXCEPT !.list = list, !.option = m,
                                  !.trace = Append(@, FillEvent("execute_javascript",
                                                       fcall.i, list, 0, "value"))] IN
                IF m = 0
                THEN FillStep(Filled([frame EXCEPT !.trace = Append(@,
                         FillEvent("_fill_select_field", fcall.i, list, 0, "false"))],
                         FALSE))
                ELSE FillStep([frame EXCEPT !.at = "select_option"])

\* return await self.browser.select_dropdown_option(selector, option['value'])
FillSelectOption ==
    /\ fpc = "select_option"
    /\ \E ret \in PrimitiveReturns("select_dropdown_option", page) :
         FillStep(Filled([fcall EXCEPT !.trace = (@ \o
              <<FillEvent("select_dropdown_option", fcall.i, fcall.list, fcall.option, ret),
                FillEvent("_fill_select_field", fcall.i, fcall.list, fcall.option, ret)>>)],
              ret = "true"))

(***************************************************************************)
(* The controller used by one task, and torn down by a second one          *)
(***************************************************************************)
ControllerFresh ==
    /\ playwright = 0
    /\ browser = 0
    /\ context = 0
    /\ page = 0
    /\ _is_initialized = FALSE
    /\ live = {}
    /\ gen = 0

ControllerIdle ==
    /\ pc = [t \in Tasks |-> "idle"]
    /\ op = [t \in Tasks |-> NoCall]
    /\ last = NoCall
    /\ ncalls = 0

\* no automator is in use
NoAutomator ==
    /\ site_name = "none"
    /\ is_logged_in = FALSE
    /\ apc = "idle"
    /\ acall = NoSiteCall

Init == ControllerFresh /\ ControllerIdle /\ NoAutomator /\ NoForm /\ NoFill

\* a step of the coroutine task t is suspended in
Resume(t) ==
    \/ InitStarted(t)
    \/ InitLaunched(t)
    \/ InitContext(t)
    \/ InitPage(t)
    \/ InitScript(t)
    \/ CleanupClosed(t)
    \/ NavigateGoto(t)
    \/ NavigateIdle(t)
    \/ NavigateDelay(t)
    \/ PrimitiveDone(t)

\* the caller starts an operation
Call(t) ==
    \/ InitializeCall(t)
    \/ CleanupCall(t)
    \/ NavigateCall(t)
    \/ PrimitiveCall(t)

\* one task: every operation runs to its end before the next starts
Next == Call("main") \/ Resume("main")

Spec == Init /\ [][Next]_vars

\* the second task calls cleanup() while the first is inside an operation
NextConc ==
    \/ Call("main")
    \/ Resume("main")
    \/ (pc["main"] # "idle" /\ CleanupCall("aux"))
    \/ CleanupClosed("aux")

SpecConc == Init /\ [][NextConc]_vars

(***************************************************************************)
(* An automator made for a session that was initialized, or was not        *)
(***************************************************************************)
\* the controller after a successful initialize()
ControllerInitialized ==
    /\ playwright = 1
    /\ browser = 1
    /\ context = 1
    /\ page = 1
    /\ _is_initialized = TRUE
    /\ live = {<<Kinds[i], 1>> : i \in 1..4}
    /\ gen = 1

\* the handles and the live objects after a cleanup() in which the release of
\* handle `stuck` raised (5: no release raised): the handles before it are
\* released and cleared, the flag is cleared only when cleanup ran to its end
CleanedUp(stuck) ==
    /\ SetHandles([i \in 1..4 |-> IF i < stuck THEN 0 ELSE Handles[i]])
    /\ live' = live \ UNION {{<<Kinds[j], Handles[i]>> : j \in 1..i} : i \in 1..(stuck - 1)}
    /\ _is_initialized' = IF stuck = 5 THEN FALSE ELSE _is_initialized
    /\ UNCHANGED <<gen, pc, op, last, ncalls>>
    /\ UNCHANGED <<site_name, formVars>>
    /\ apc' = "idle"
    /\ acall' = SiteCall("browser.cleanup", "none")

\* a cleanup() that also logs the automator out
SessionCleanupLoggingOut ==
    /\ apc = "idle"
    /\ \E stuck \in {i \in 1..4 : Handles[i] # 0} \cup {5} : CleanedUp(stuck)
    /\ is_logged_in' = FALSE

\* the caller of the automator cleans the session up between two automator
\* calls: BrowserManager.cleanup() run to its end; the automator is not told
SessionCleanup ==
    /\ apc = "idle"
    /\ \E stuck \in {i \in 1..4 : Handles[i] # 0} \cup {5} : CleanedUp(stuck)
    /\ UNCHANGED is_logged_in

\* BaseAutomator.__init__, by JobSiteFactory.create_automator
InitSite ==
    /\ ControllerFresh \/ ControllerInitialized
    /\ ControllerIdle
    /\ site_name \in Sites
    /\ is_logged_in = FALSE
    /\ apc = "idle"
    /\ acall = NoSiteCall
    /\ NoForm
    /\ NoFill

NextSite ==
    \/ LoginCall
    \/ LoginNavigate
    \/ LoginEmail
    \/ LoginPassword
    \/ LoginClick
    \/ LoginWait
    \/ LoginCheck
    \/ SearchCall
    \/ SearchNavigate
    \/ SearchKeywords
    \/ SearchLocation
    \/ SearchClick
    \/ SearchWait
    \/ SearchExtract
    \/ ApplyCall
    \/ ApplyNavigate
    \/ ApplyCheck
    \/ ApplyPresent
    \/ ApplyClick
    \/ ApplyDelay
    \/ ApplyFill
    \/ ApplySubmitPresent
    \/ ApplySubmitClick
    \/ CreateAutomator
    \/ DetailsCall
    \/ DetailsNavigate
    \/ DetailsTitle
    \/ DetailsCompany
    \/ DetailsLocation
    \/ SessionCleanup

SpecSite == InitSite /\ [][NextSite]_vars

(***************************************************************************)
(* classify_field applied to one discovered field                          *)
(***************************************************************************)
InitClassify ==
    /\ ControllerFresh
    /\ ControllerIdle
    /\ NoAutomator
    /\ field \in Fields
    /\ field_type = "none"
    /\ NoFill

NextClassify == ClassifyField

SpecClassify == InitClassify /\ [][NextClassify]_vars

(***************************************************************************)
(* fill_form_intelligently on one form, with or without a page             *)
(***************************************************************************)
InitForm ==
    /\ ControllerFresh \/ ControllerInitialized
    /\ ControllerIdle
    /\ NoAutomator
    /\ NoForm
    /\ NoFill

NextForm ==
    \/ FillCall
    \/ FillGetFields
    \/ FillInput
    \/ FillSelectOptions
    \/ FillSelectOption

SpecForm == InitForm /\ [][NextForm]_vars

(***************************************************************************)
(* Properties of the session controller                                    *)
(***************************************************************************)
Released == <<NoHandles, FALSE>>

\* position of a handle in cleanup's release order
KindIndex(k) == CHOOSE i \in 1..4 : Kinds[i] = k

InReleaseOrder(closed) ==
    \A i, j \in 1..Len(closed) : i < j => KindIndex(closed[i]) < KindIndex(closed[j])

InitSteps == {"start", "launch", "context", "page", "timeout", "script"}

\* the interaction methods of the controller
Interactions == {"navigate_to"} \cup (Primitives \ {"wait_for_navigation"})

\* C4: after cleanup() returns, from any controller state and even if a release
\* failed, every handle is absent and the controller is not initialized; the
\* handles were released in the order page, context, browser, driver; cleanup
\* did not raise.
C4_CleanupReleasesEverything ==
    last.name = "cleanup" =>
        /\ last.post = Released
        /\ InReleaseOrder(last.closed)
        /\ ~last.raised

\* C5: a cleanup() that directly follows a cleanup() raises nothing and leaves the
\* controller as the first one left it: all handles absent, not initialized.
C5_CleanupTwiceSameState ==
    (last.name = "cleanup" /\ last.after = "cleanup") =>
        /\ ~last.raised
        /\ last.post = last.pre
        /\ last.post = Released

\* C6: when a cleanup() of the second task ran while initialize() or an
\* interaction of the first task was still running, then once both have finished
\* the controller holds no handle, is not initialized, and neither call raised.
C6_CleanupMidOperationReleases ==
    (/\ pc["main"] = "idle"
     /\ pc["aux"] = "idle"
     /\ \/ last.task = "main" /\ last.name \in Interactions \cup {"initialize"}
                              /\ last.with = "cleanup"
        \/ last.task = "aux" /\ last.with \in Interactions \cup {"initialize"}) =>
        /\ Handles = NoHandles
        /\ ~is_initialized
        /\ ~last.raised

\* C7: an initialize() one of whose steps failed returns false without raising
\* and leaves the controller not initialized, holding no handle.
C7_FailedInitializeHoldsNothing ==
    (last.name = "initialize" /\ last.failed \in InitSteps) =>
        /\ last.ret = "false"
        /\ ~last.raised
        /\ last.post = Released

\* C8: an interaction called on a controller that is not initialized returns its
\* failure value (false or absent), raises nothing and leaves the controller as
\* it was.
C8_UninitializedInteractionFails ==
    (last.name \in Interactions /\ ~IsInitializedOf(last.pre)) =>
        /\ last.ret = (IF last.name \in ValuePrimitives THEN "none" ELSE "false")
        /\ ~last.raised
        /\ last.post = last.pre

NavigatedInitialized == last.name = "navigate_to" /\ IsInitializedOf(last.pre)

LoadCompleted == last.goto = "ok" /\ (last.arg => last.idle = "ok")

LoadTimedOut == last.goto = "timeout" \/ last.idle = "timeout"

NavigateTrueExactly ==
    last.ret = "true" <=> (LoadCompleted /\ last.resp \in 1..399)

\* C9 as claimed: on an initialized controller navigate_to returns true exactly
\* when the load (and the idle wait, if asked for) completed and a response with
\* a status below 400 came; after a timeout of either, a navigation_timeout
\* screenshot has been captured and false is returned.
C9_NavigateCapturesOnTimeout ==
    NavigatedInitialized =>
        /\ NavigateTrueExactly
        /\ LoadTimedOut =>
              /\ last.ret = "false"
              /\ last.shots = <<[tag |-> "navigation_timeout", result |-> "saved"]>>

\* C9 amended: as above, but after a timeout the navigation_timeout screenshot
\* has been attempted exactly once; it is saved unless page.screenshot() fails.
C9_NavigateAttemptsCaptureOnTimeout ==
    NavigatedInitialized =>
        /\ NavigateTrueExactly
        /\ LoadTimedOut =>
              /\ last.ret = "false"
              /\ Len(last.shots) = 1
              /\ last.shots[1].tag = "navigation_timeout"
              /\ last.shots[1].result \in {"saved", "failed"}

\* C9 witness: the idle wait of a navigation on an initialized controller timed
\* out and the screenshot attempt failed
C9_Witness ==
    /\ NavigatedInitialized
    /\ last.goto = "ok"
    /\ last.idle = "timeout"
    /\ last.ret = "false"
    /\ last.shots = <<[tag |-> "navigation_timeout", result |-> "failed"]>>

(***************************************************************************)
(* Properties of the site automators                                       *)
(***************************************************************************)
Returned(method) == apc = "idle" /\ acall.method = method

HasEvent(ev, what, ret) ==
    \E i \in 1..Len(acall.trace) : acall.trace[i] = Event(ev, what, ret)

AlreadyAppliedSeen ==
    \E i \in 1..Len(acall.trace) :
        acall.trace[i].ev = "check_already_applied" /\ acall.trace[i].ret = "true"

\* C1: apply_to_job returns true only if, in that call, fill_form_intelligently
\* returned success and the click on the submission control returned success.
C1_ApplyTrueOnlyAfterFillAndSubmit ==
    (Returned("apply_to_job") /\ acall.ret = "true") =>
        /\ HasEvent("fill_form_intelligently", "form", "true")
        /\ HasEvent("click_element", "submit", "true")

\* C2: once check_already_applied has answered true inside apply_to_job, the
\* call has returned false at once: no control was looked up or clicked and the
\* form handler was not invoked, before or after.
C2_AlreadyAppliedReturnsAtOnce ==
    (acall.method = "apply_to_job" /\ AlreadyAppliedSeen) =>
        /\ apc = "idle"
        /\ acall.ret = "false"
        /\ acall.exc = "none"
        /\ acall.trace[Len(acall.trace)].ev = "check_already_applied"
        /\ \A i \in 1..Len(acall.trace) :
              acall.trace[i].ev \notin {"is_element_present", "click_element",
                                        "human_delay", "fill_form_intelligently"}

\* C2 witness: apply_to_job has returned on a page that says "Application Submitted"
C2_Witness ==
    /\ Returned("apply_to_job")
    /\ HasEvent("navigate_to", "job", "true")
    /\ HasEvent("check_already_applied", "submitted", "true")
    /\ acall.ret = "false"

\* the tag {site}_error_login, {site}_error_search, {site}_error_apply
ExpectedErrorTag ==
    CASE acall.method = "login" -> site_name \o "_error_login"
      [] acall.method = "search_jobs" -> site_name \o "_error_search"
      [] acall.method = "apply_to_job" -> site_name \o "_error_apply"
      [] OTHER -> "none"

ErrorShots ==
    {i \in 1..Len(acall.trace) :
        acall.trace[i].ev = "take_screenshot" /\ acall.trace[i].what = ExpectedErrorTag}

\* a step of the call raised: a dict key was missing, the session has no page,
\* or a script gave no result where one was needed
StepRaised ==
    \/ acall.exc # "none"
    \/ page = 0
    \/ HasEvent("execute_javascript", "extract", "none")
    \/ HasEvent("execute_javascript", "innerText", "none")

\* C3: login, search_jobs and apply_to_job let no exception reach the caller;
\* when a step raised (also with an uninitialized session, also when the script
\* gave no result) the call returns false / an empty list / false, after exactly
\* one attempt at the screenshot tagged {site}_error_{login|search|apply}.
C3_SiteMethodsCatchEverything ==
    (apc = "idle" /\ acall.method \in {"login", "search_jobs", "apply_to_job"}) =>
        /\ ~acall.raised
        /\ StepRaised =>
              /\ acall.exc # "none"
              /\ acall.ret = (IF acall.method = "search_jobs" THEN "empty_list" ELSE "false")
              /\ acall.jobs = <<>>
              /\ Cardinality(ErrorShots) = 1
              /\ Len(acall.trace) \in ErrorShots
        /\ ~StepRaised => ErrorShots = {}

\* C3 witness: search_jobs on a session that was never initialized has returned
C3_Witness ==
    /\ Returned("search_jobs")
    /\ page = 0
    /\ acall.exc = "TypeError"
    /\ acall.ret = "empty_list"
    /\ HasEvent("take_screenshot", site_name \o "_error_search", "no_page")

(***************************************************************************)
(* Properties of the field classification                                  *)
(***************************************************************************)
Classified == field \in Fields /\ field_type # "none"

\* the categories of the table whose keywords appear in the text
MatchingEntries(field_text) ==
    {i \in 1..Len(field_mappings) :
        \E k \in 1..Len(field_mappings[i].keywords) :
            Contains(field_text, field_mappings[i].keywords[k])}

\* the reference rule on a given text: the first category in table order with
\* a keyword in the text; with no keyword of any category in it, the type
\* rules in order; otherwise unknown
ReferenceRule(field_text, f) ==
    IF MatchingEntries(field_text) # {}
    THEN field_mappings[CHOOSE i \in MatchingEntries(field_text) :
                           \A j \in MatchingEntries(field_text) : i <= j].category
    ELSE CASE f.type = "email" -> "email"
           [] f.type = "tel" -> "phone"
           [] f.type = "file" -> "resume"
           [] f.tagName = "textarea" -> "message"
           [] OTHER -> "unknown"

NoAttributes(f) == f.name = <<>> /\ f.id = <<>> /\ f.placeholder = <<>>

\* the three cases the rule is stated with
ClassifyExamples ==
    /\ (field.name = Attr_resume_upload /\ field.id = <<>> /\ field.placeholder = <<>>
          /\ field.type = "file") => field_type = "resume"
    /\ (NoAttributes(field) /\ field.type = "email") => field_type = "email"
    /\ (NoAttributes(field) /\ field.type \in {"", "text"} /\ field.tagName = "textarea")
          => field_type = "message"

\* C10 as stated: classify_field equals the reference rule applied to the
\* lower-cased concatenation of name, id and placeholder.
C10_ClassifyEqualsRuleOnConcatenation ==
    Classified =>
        /\ field_type = ReferenceRule(Lower((field.name \o field.id) \o field.placeholder), field)
        /\ ClassifyExamples

\* C10: classify_field equals the reference rule applied to the lower-cased
\* name, id and placeholder joined with single spaces, so that a keyword is
\* found only inside one attribute; the three stated cases hold.
C10_ClassifyEqualsRuleOnSpacedJoin ==
    Classified =>
        /\ field_type =
             ReferenceRule(Lower(field.name) \o <<" ">> \o Lower(field.id)
                             \o <<" ">> \o Lower(field.placeholder), field)
        /\ \A i \in MatchingEntries(FieldText(field)) :
              \E k \in 1..Len(field_mappings[i].keywords) :
                  \/ Contains(Lower(field.name), field_mappings[i].keywords[k])
                  \/ Contains(Lower(field.id), field_mappings[i].keywords[k])
                  \/ Contains(Lower(field.placeholder), field_mappings[i].keywords[k])
        /\ ClassifyExamples

\* C10 witness: a file input named resume-upload was classified by keyword, and
\* not by the type rule
C10_Witness ==
    /\ Classified
    /\ field.name = Attr_resume_upload
    /\ field.type = "file"
    /\ 7 \in MatchingEntries(FieldText(field))
    /\ field_type = "resume"

(***************************************************************************)
(* Properties of login, the already-applied check and the apply outcome    *)
(***************************************************************************)
\* the success substrings: LinkedIn "feed" or "in/", Dice "dashboard", Indeed "account"
SuccessSubstrings(site) ==
    CASE site = "linkedin" -> {<<"f", "e", "e", "d">>, <<"i", "n", "/">>}
      [] site = "dice" -> {<<"d", "a", "s", "h", "b", "o", "a", "r", "d">>}
      [] site = "indeed" -> {<<"a", "c", "c", "o", "u", "n", "t">>}
      [] OTHER -> {}

\* login ran to its URL test without raising, and the page was at URL id
LoginTestedUrl(id) ==
    /\ Returned("login")
    /\ acall.exc = "none"
    /\ acall.trace[Len(acall.trace)] = Event("page.url", id, "value")

\* C14: when no step raises, login returns true exactly when the page URL after
\* the post-submit wait contains the site's success substring; is_logged_in
\* becomes true only in the step in which login returns true.
C14_LoginTrueIffSuccessUrl ==
    /\ []((Returned("login") /\ acall.exc = "none") =>
             /\ \E id \in UrlIds : LoginTestedUrl(id)
             /\ \A id \in UrlIds : LoginTestedUrl(id) =>
                   (acall.ret = "true" <=>
                      \E sub \in SuccessSubstrings(site_name) :
                          Contains(UrlText(site_name, id), sub))
             /\ acall.ret \in {"true", "false"}
             /\ acall.ret = "true" => is_logged_in)
    /\ [][(~is_logged_in /\ is_logged_in') =>
            /\ apc' = "idle"
            /\ acall'.method = "login"
            /\ acall'.ret = "true"]_vars

\* C14 witness: a LinkedIn login that ended on the feed has returned true
C14_Witness ==
    /\ site_name = "linkedin"
    /\ LoginTestedUrl("home")
    /\ acall.ret = "true"
    /\ is_logged_in

\* C16: check_already_applied answers true exactly when the lower-cased page
\* text contains one of the five phrases; "Application Submitted" gives true,
\* a text with none of the phrases gives false.
C16_AlreadyAppliedIffPhrase ==
    \A i \in 1..Len(acall.trace) :
        acall.trace[i].ev = "check_already_applied" =>
            /\ acall.trace[i].ret = "true" <=>
                  \E phrase \in Indicators :
                      Contains(Lower(PageText(acall.trace[i].what)), phrase)
            /\ acall.trace[i].what = "submitted" => acall.trace[i].ret = "true"
            /\ acall.trace[i].what \in {"apply", "easy"} => acall.trace[i].ret = "false"

\* C16 witness: the check has answered true on "View application" and the call
\* has returned
C16_Witness ==
    /\ Returned("apply_to_job")
    /\ HasEvent("check_already_applied", "viewed", "true")

\* the reasons an application outcome may carry
ApplicationReasons ==
    {"applied", "already_applied", "no_apply_control_found", "login_failed",
     "submit_failed", "error"}

\* C19: what apply_to_job returns carries a reason from ApplicationReasons.
C19_ApplyOutcomeCarriesReason ==
    Returned("apply_to_job") => acall.ret \in ApplicationReasons

\* C20: if navigate_to(job url) failed inside apply_to_job, the call clicks
\* nothing, fills no form and does not return true.
C20_FailedNavigationStopsApply ==
    (acall.method = "apply_to_job" /\ HasEvent("navigate_to", "job", "false")) =>
        /\ \A i \in 1..Len(acall.trace) :
              acall.trace[i].ev \notin {"click_element", "fill_form_intelligently"}
        /\ acall.ret # "true"

(***************************************************************************)
(* Properties of search_jobs                                               *)
(***************************************************************************)
\* the cards of the page that have a resolvable URL: a link with an href
ResolvableCards(cards) == {i \in 1..Len(cards) : cards[i].link = "href"}

Min(a, b) == IF a < b THEN a ELSE b

\* C15: search_jobs returns at most 20 listings, each with a non-empty url: the
\* first min(20, n) of the n cards with a resolvable URL, in document order.
C15_SearchReturnsFirstResolvable ==
    (Returned("search_jobs") /\ acall.exc = "none") =>
        LET R == ResolvableCards(acall.cards) IN
        /\ Len(acall.jobs) <= 20
        /\ Len(acall.jobs) = Min(20, Cardinality(R))
        /\ \A j \in 1..Len(acall.jobs) :
              /\ acall.jobs[j].url # ""
              /\ acall.jobs[j].card \in R
              /\ Cardinality({i \in R : i < acall.jobs[j].card}) = j - 1

(***************************************************************************)
(* Properties of get_job_details                                           *)
(***************************************************************************)
\* a step of get_job_details failed: the navigation or one of the extractions
DetailsStepFailed ==
    \/ HasEvent("navigate_to", "details", "false")
    \/ \E what \in {"title", "company", "location"} :
          HasEvent("get_element_text", what, "none")

\* C17: get_job_details returns absent whenever the navigation or one of the
\* title, company and location extractions failed; a returned record has none
\* of these fields absent.
C17_JobDetailsAbsentOnAnyFailure ==
    Returned("get_job_details") =>
        /\ DetailsStepFailed => acall.ret = "none"
        /\ acall.ret = "record" =>
              /\ acall.details.title # "none"
              /\ acall.details.company # "none"
              /\ acall.details.location # "none"

(***************************************************************************)
(* Properties of the factory                                               *)
(***************************************************************************)
\* the supported sites that identifier id names, letter case apart
NamedSites(id) ==
    {get_supported_sites[i] : i \in
        {j \in 1..Len(get_supported_sites) :
            Lower(IdentifierText(get_supported_sites[j])) = Lower(IdentifierText(id))}}

\* C18: for an identifier that is a supported site in any letter case,
\* create_automator returns a new automator of that site, not logged in; for
\* any other identifier it raises the unsupported-site error and the automator
\* in use stays as it was.
C18_FactoryIsCaseInsensitive ==
    /\ [](Returned("create_automator") =>
             IF NamedSites(acall.input) # {}
             THEN /\ acall.ret = "automator"
                  /\ ~acall.raised
                  /\ site_name \in NamedSites(acall.input)
                  /\ ~is_logged_in
             ELSE /\ acall.raised
                  /\ acall.exc = "ValueError"
                  /\ acall.ret = "none")
    /\ [][(acall'.method = "create_automator" /\ acall'.raised) =>
            (site_name' = site_name /\ is_logged_in' = is_logged_in)]_vars

\* C18 witness: "INDEED" made an Indeed automator
C18_Witness ==
    /\ Returned("create_automator")
    /\ acall.input = "INDEED"
    /\ acall.ret = "automator"
    /\ site_name = "indeed"
    /\ ~is_logged_in

(***************************************************************************)
(* Properties of fill_form_intelligently                                   *)
(***************************************************************************)
FillReturned == fpc = "idle" /\ fcall.method = "fill_form_intelligently"

\* the positions in the trace of the fills of field i: a fill_input, or the
\* option-matching path of a select field
FillsOf(i) ==
    {k \in 1..Len(fcall.trace) :
        /\ fcall.trace[k].ev \in {"fill_input", "_fill_select_field"}
        /\ fcall.trace[k].field = i}

\* a fill the session controller performed succeeded
SomeFillSucceeded ==
    \E k \in 1..Len(fcall.trace) :
        /\ fcall.trace[k].ev \in {"fill_input", "select_dropdown_option"}
        /\ fcall.trace[k].ret = "true"

\* C11: fill_form_intelligently returns true exactly when a fill performed
\* through the controller in that call succeeded; it returns false for a form
\* without fields, when every fill fails and when an error occurs.
C11_FillTrueIffSomeFillSucceeded ==
    FillReturned =>
        /\ fcall.ret \in {"true", "false"}
        /\ fcall.ret = "true" <=> SomeFillSucceeded
        /\ fcall.fields = <<>> => fcall.ret = "false"
        /\ fcall.exc # "none" => fcall.ret = "false"

\* C11 witness: of two fills one failed and one succeeded, and the call has
\* returned true
C11_Witness ==
    /\ FillReturned
    /\ fcall.ret = "true"
    /\ \E k \in 1..Len(fcall.trace) :
          fcall.trace[k].ev = "fill_input" /\ fcall.trace[k].ret = "false"
    /\ SomeFillSucceeded

\* the classifications without an entry in the lookup table
NoLookupEntry ==
    {"unknown", "resume", "cover_letter", "salary", "availability", "website"}

\* the profile has a non-empty value for the classification
ProfileValuePresent(ft, profile) ==
    /\ ft \notin NoLookupEntry
    /\ ft \in {"linkedin", "message"} \/ profile = "full"

\* field i of the form is visible and resolves to a non-empty value
Resolves(i) ==
    /\ FormField(fcall.fields[i]).visible
    /\ ProfileValuePresent(classify_field(FormField(fcall.fields[i])), fcall.profile)

MatchingOptions(list) ==
    {j \in 1..Len(Options(list)) :
        \/ Contains(Lower(Options(list)[j].text), Lower(ProfileLocation))
        \/ Lower(Options(list)[j].value) = Lower(ProfileLocation)}

\* the selections made for field i
SelectionsOf(i) ==
    {k \in 1..Len(fcall.trace) :
        fcall.trace[k].ev = "select_dropdown_option" /\ fcall.trace[k].field = i}

\* C13: for a select field the first option in document order that matches is
\* the one selected; without a matching option nothing is selected and the
\* fill reports failure.
C13_SelectPicksFirstMatchingOption ==
    \A k \in 1..Len(fcall.trace) :
        LET e == fcall.trace[k]
            M == MatchingOptions(e.list) IN
        (e.ev = "_fill_select_field" /\ e.list # "none") =>
            IF M = {}
            THEN /\ e.ret = "false"
                 /\ SelectionsOf(e.field) = {}
            ELSE /\ SelectionsOf(e.field) = {k - 1}
                 /\ fcall.trace[k - 1].list = e.list
                 /\ fcall.trace[k - 1].option \in M
                 /\ \A j \in M : fcall.trace[k - 1].option <= j
                 /\ e.ret = fcall.trace[k - 1].ret

\* C13 witness: in a list whose second and third options match, the second was
\* selected
C13_Witness ==
    /\ FillReturned
    /\ \E k \in 1..Len(fcall.trace) :
          /\ fcall.trace[k].ev = "select_dropdown_option"
          /\ fcall.trace[k].list = "text_second"
          /\ fcall.trace[k].option = 2
          /\ fcall.trace[k].ret = "true"
          /\ MatchingOptions("text_second") = {2, 3}

(***************************************************************************)
(* Properties of the session controller: one session, evidence, the flag   *)
(***************************************************************************)
\* no call of the controller is running
NoCallRunning == \A t \in Tasks : pc[t] = "idle"

\* C24: after any sequence of initialize() and cleanup() calls every driver,
\* browser, context and page that was started and not closed is the one the
\* controller's handle refers to, so at most one of each exists.
C24_OnlyTheReferencedSessionLives ==
    NoCallRunning =>
        \A o \in live : Handles[KindIndex(o[1])] = o[2]

\* the tags of the screenshots a failing interaction takes
InteractionTags(p) ==
    CASE p = "click_element" -> {"click_timeout", "click_error"}
      [] p = "fill_input" -> {"fill_timeout", "fill_error"}
      [] p = "select_dropdown_option" -> {"dropdown_error"}

\* C27: with an open page, a false return of click_element, fill_input or
\* select_dropdown_option comes after exactly one screenshot attempt with the
\* tag of that method, and a true return after none.
C27_FalseReturnAfterOneScreenshot ==
    (/\ last.name \in {"click_element", "fill_input", "select_dropdown_option"}
     /\ last.pre[1][1] # 0) =>
        /\ last.ret \in {"true", "false"}
        /\ last.ret = "true" => last.shots = <<>>
        /\ last.ret = "false" =>
              /\ Len(last.shots) = 1
              /\ last.shots[1].tag \in InteractionTags(last.name)
              /\ last.shots[1].result \in {"saved", "failed"}

\* C27 witness: fill_input timed out on an open page and returned false
C27_Witness ==
    /\ last.name = "fill_input"
    /\ last.pre[1][1] # 0
    /\ last.ret = "false"
    /\ last.shots = <<[tag |-> "fill_timeout", result |-> "saved"]>>

\* C29: whenever is_initialized is true after a sequence of initialize() and
\* cleanup() calls, failing ones included, the driver, browser, context and
\* page handles are all present.
C29_InitializedHoldsEveryHandle ==
    (NoCallRunning /\ is_initialized) =>
        \A i \in 1..4 : Handles[i] # 0

\* C29 witness: a cleanup whose first release failed has returned and the
\* controller still reports initialized
C29_Witness ==
    /\ NoCallRunning
    /\ last.name = "cleanup"
    /\ last.stuck = "page"
    /\ is_initialized


(***************************************************************************)
(* Properties of the site automators: rejected login, results, records     *)
(***************************************************************************)
\* C21: if the browser is still on the site's login URL when login tests the
\* URL, login returns false and is_logged_in is not set by the call.
C21_LoginUrlMeansNotLoggedIn ==
    /\ [](LoginTestedUrl("login") => acall.ret = "false")
    /\ [][(apc = "login_check" /\ LoginTestedUrl("login")') =>
            is_logged_in' = is_logged_in]_vars

\* C22: apply_to_job returns True or False on every path.
C22_ApplyReturnsBoolean ==
    Returned("apply_to_job") => acall.ret \in {"true", "false"}

\* C23: when execute_javascript gives no page text, check_already_applied
\* answers false and raises nothing.
C23_CheckFalseWithoutPageText ==
    (acall.method = "apply_to_job" /\ HasEvent("execute_javascript", "innerText", "none")) =>
        /\ acall.exc = "none"
        /\ \E i \in 1..Len(acall.trace) :
              /\ acall.trace[i].ev = "check_already_applied"
              /\ acall.trace[i].ret = "false"

\* the keys of a job listing
JobListingFields == {"title", "company", "location", "url", "site"}

\* C28: every record search_jobs and get_job_details return has the keys
\* title, company, location, url and site, and its site is the automator's
\* site_name.
C28_RecordsHaveFiveFields ==
    /\ Returned("search_jobs") =>
          \A j \in 1..Len(acall.jobs) :
              /\ JobListingFields \subseteq DOMAIN acall.jobs[j]
              /\ acall.jobs[j].site = site_name
    /\ (Returned("get_job_details") /\ acall.ret = "record") =>
          /\ JobListingFields \subseteq DOMAIN acall.details
          /\ acall.details.site = site_name


(***************************************************************************)
(* Properties of apply_to_job: the order of its steps                      *)
(***************************************************************************)
\* the place of an awaited step in apply_to_job; screenshots have none
ApplyStage(e) ==
    CASE e.ev = "navigate_to" /\ e.what = "job" -> 1
      [] e.ev = "execute_javascript" /\ e.what = "innerText" -> 2
      [] e.ev = "check_already_applied" -> 3
      [] e.ev = "is_element_present" /\ e.what = "apply" -> 4
      [] e.ev = "click_element" /\ e.what = "apply" -> 5
      [] e.ev = "human_delay" -> 6
      [] e.ev = "fill_form_intelligently" -> 7
      [] e.ev = "is_element_present" /\ e.what = "submit" -> 8
      [] e.ev = "click_element" /\ e.what = "submit" -> 9
      [] e.ev = "take_screenshot" -> 0

\* the steps of the running or last call, without the screenshots
ApplySteps == SelectSeq(acall.trace, LAMBDA e : e.ev # "take_screenshot")

SubmitClicked ==
    \E i \in 1..Len(acall.trace) :
        acall.trace[i].ev = "click_element" /\ acall.trace[i].what = "submit"

\* the three endings of an invocation
EndedAlreadyApplied == AlreadyAppliedSeen /\ acall.ret = "false"
EndedSubmitted == SubmitClicked /\ acall.ret = "true"
EndedFailed == ~AlreadyAppliedSeen /\ acall.ret # "true"

\* C25: within one apply_to_job the steps navigate, already-applied check,
\* apply-control lookup and click, human delay, form fill, submission-control
\* lookup and click happen at most once each and in this order, nothing is
\* repeated after a failure, and the call ends in exactly one of already
\* applied, submitted, failed.
C25_ApplyStepsOnceInOrder ==
    acall.method = "apply_to_job" =>
        /\ \A i, j \in 1..Len(ApplySteps) :
              i < j => ApplyStage(ApplySteps[i]) < ApplyStage(ApplySteps[j])
        /\ acall.exc # "none" =>
              /\ apc = "idle"
              /\ acall.trace[Len(acall.trace)].ev = "take_screenshot"
        /\ AlreadyAppliedSeen =>
              /\ apc = "idle"
              /\ ApplyStage(acall.trace[Len(acall.trace)]) = 3
        /\ apc = "idle" =>
              /\ EndedAlreadyApplied \/ EndedSubmitted \/ EndedFailed
              /\ ~(EndedAlreadyApplied /\ EndedSubmitted)
              /\ ~(EndedAlreadyApplied /\ EndedFailed)
              /\ ~(EndedSubmitted /\ EndedFailed)

\* C25 witness: an invocation went through every step and ended submitted
C25_Witness ==
    /\ Returned("apply_to_job")
    /\ Len(ApplySteps) = 9
    /\ EndedSubmitted


(***************************************************************************)
(* Properties of _fill_select_field: text match and value match            *)
(***************************************************************************)
\* the options of a list whose lower-cased text contains the target
TextMatching(list) ==
    {j \in 1..Len(Options(list)) :
        Contains(Lower(Options(list)[j].text), Lower(ProfileLocation))}

\* the options of a list whose value equals the target, letter case apart
ValueMatching(list) ==
    {j \in 1..Len(Options(list)) :
        Lower(Options(list)[j].value) = Lower(ProfileLocation)}

\* the selections of the running or last fill_form_intelligently
Selections ==
    {k \in 1..Len(fcall.trace) : fcall.trace[k].ev = "select_dropdown_option"}

\* C26 as stated: an option is chosen by value equality only when no option's
\* text contains the target; a text match on any option takes priority over a
\* value match on an earlier option.
C26_TextMatchTakesPriority ==
    \A k \in Selections :
        LET e == fcall.trace[k] IN
        TextMatching(e.list) # {} => e.option \in TextMatching(e.list)

\* C26 amended: each option is tested in document order, by text or by value,
\* and the first option that passes is chosen: an option chosen by value
\* equality has no text match before it, and may have one after it.
C26_FirstOptionPassingEitherTest ==
    \A k \in Selections :
        LET e == fcall.trace[k] IN
        /\ e.option \in TextMatching(e.list) \cup ValueMatching(e.list)
        /\ \A j \in 1..(e.option - 1) :
              j \notin TextMatching(e.list) /\ j \notin ValueMatching(e.list)
        /\ e.option \notin TextMatching(e.list) =>
              /\ e.option \in ValueMatching(e.list)
              /\ \A j \in TextMatching(e.list) : j > e.option

\* C26 witness: the first option matches by value only, the second by text, and
\* the first was selected
C26_Witness ==
    /\ FillReturned
    /\ TextMatching("value_first") = {2}
    /\ ValueMatching("value_first") = {1}
    /\ \E k \in Selections :
          /\ fcall.trace[k].list = "value_first"
          /\ fcall.trace[k].option = 1


(***************************************************************************)
(* Properties of the is_logged_in flag                                     *)
(***************************************************************************)
\* the step constructs an automator
Constructs == acall'.method = "create_automator" /\ acall'.ret = "automator"

\* C30: is_logged_in is false at construction, changes only in the step in
\* which login returns true, and only from false to true, and is not reset
\* afterwards: not by a later login that returns false, not by the session's
\* cleanup(), not by search_jobs, apply_to_job or get_job_details.
C30_LoggedInSetOnceByLogin ==
    /\ [](acall = NoSiteCall => ~is_logged_in)
    /\ [][Constructs => ~is_logged_in']_vars
    /\ [][(is_logged_in' # is_logged_in /\ ~Constructs) =>
            /\ ~is_logged_in
            /\ apc = "login_check"
            /\ apc' = "idle"
            /\ acall'.method = "login"
            /\ acall'.ret = "true"]_vars
    /\ [][(is_logged_in /\ ~Constructs) => is_logged_in']_vars
    /\ [][(acall'.method \in {"search_jobs", "apply_to_job", "get_job_details",
                              "browser.cleanup"}) =>
            is_logged_in' = is_logged_in]_vars

\* C30 witness: after a login that returned true and the session's cleanup, a
\* second login has returned false and the flag is still true
C30_Witness ==
    /\ Returned("login")
    /\ acall.ret = "false"
    /\ page = 0
    /\ ~_is_initialized
    /\ is_logged_in

====
